---- MODULE Spec2Model ----
(***************************************************************************)
(* Model of app.py of the CV application: the module-level configuration,  *)
(* the /upload handler with its inference helpers, and the /export handler *)
(* with its three calls to the sheet backend.                              *)
(*                                                                         *)
(* A Python str is a sequence of tokens (words and whitespace), so that    *)
(* str.strip() and the f-strings are computed and not assumed.  Python's   *)
(* None is the one-token value None, whose token no text contains.         *)
(***************************************************************************)
EXTENDS Naturals, Sequences, FiniteSets

VARIABLES
    text_model, json_model, sheets_service, drive_service,  \* module globals
    pc,                         \* position of the /upload request in its handler
    cv_data, name, province,    \* locals of upload_and_process_cv
    name_based_language, province_based_language,
    response,                   \* the Response /upload returned
    inference_calls,            \* generate_content calls made by this /upload request
    returns,                    \* per helper, the result of its call in this request
    export,                     \* per /export request: position, locals, response
    spreadsheets                \* the sheet backend's store, indexed by spreadsheetId

vars == <<text_model, json_model, sheets_service, drive_service, pc, cv_data, name,
          province, name_based_language, province_based_language, response,
          inference_calls, returns, export, spreadsheets>>

config_vars == <<text_model, json_model, sheets_service, drive_service>>
upload_vars == <<pc, cv_data, name, province, name_based_language,
                 province_based_language, response, inference_calls, returns>>
export_vars == <<export, spreadsheets>>

-----------------------------------------------------------------------------
(* Python values *)

None == <<"None">>
Error == <<"Error">>
Unknown == <<"Unknown">>
NoService == "None"

\* bool(v) of a value that is None or a str
Truthy(v) == v # None /\ v # <<>>

\* a or b
Or(a, b) == IF Truthy(a) THEN a ELSE b

Whitespace == {" ", "\n"}

RECURSIVE lstrip(_)
lstrip(s) == IF s # <<>> /\ Head(s) \in Whitespace THEN lstrip(Tail(s)) ELSE s

RECURSIVE rstrip(_)
rstrip(s) ==
    IF s # <<>> /\ s[Len(s)] \in Whitespace THEN rstrip(SubSeq(s, 1, Len(s) - 1)) ELSE s

strip(s) == rstrip(lstrip(s))

\* d.get(key)
Get(d, key) == IF key \in DOMAIN d THEN d[key] ELSE None

\* d[key] = value
Put(d, key, value) == [k \in DOMAIN d \cup {key} |-> IF k = key THEN value ELSE d[k]]

EmptyDict == [k \in {} |-> None]

-----------------------------------------------------------------------------
(* The inference backend: a reply to generate_content is an exception or a text *)

Raises == [ok |-> FALSE, text |-> <<>>]
Reply(t) == [ok |-> TRUE, text |-> t]

\* the enumeration the three language prompts name (lines 73, 91, 99)
Languages == {<<"isiZulu">>, <<"isiXhosa">>, <<"Afrikaans">>, <<"Sepedi">>, <<"English">>,
              <<"Setswana">>, <<"Sesotho">>, <<"Xitsonga">>, <<"siSwati">>,
              <<"Tshivenda">>, <<"isiNdebele">>}

LanguageReplies ==
    {Raises, Reply(<<"isiZulu">>), Reply(<<" ", "Afrikaans", "\n">>), Reply(<<"\n">>),
     Reply(<<"isiZulu", " ", "or", " ", "Afrikaans", "\n">>)}

ProvinceReplies == {Raises, Reply(<<"KwaZulu-Natal", "\n">>), Reply(<<"Unknown">>)}

\* The reply to the extraction prompt, as json.loads takes it: the call or the
\* parse raises, or the text parses to a value that is no object, or to an object.
BackendKeys == {"Name and Surname", "Province", "City", "Town", "Hobbies", "error"}

FieldValues(k) ==
    CASE k = "Name and Surname" -> {None, <<"Thabo", " ", "Nkosi">>}
      [] k = "Province" -> {None, <<"Gauteng">>}
      [] k = "City" -> {None, <<"Durban">>}
      [] k = "Town" -> {None, <<"Umlazi">>}
      [] k = "Hobbies" -> {<<"chess">>}
      [] k = "error" -> {<<"quota">>}

Objects ==
    UNION {{d \in [ks -> UNION {FieldValues(k) : k \in ks}] :
               \A k \in ks : d[k] \in FieldValues(k)} : ks \in SUBSET BackendKeys}

Json(kind, d) == [kind |-> kind, object |-> d]

ExtractionReplies ==
    {Json("raises", EmptyDict), Json("not an object", EmptyDict)}
        \cup {Json("object", d) : d \in Objects}

-----------------------------------------------------------------------------
(* Helper functions.  A result is the value returned, whether generate_content
   was called, whether it raised, and whether the exception left the helper. *)

Helpers == {"extract_cv_info", "get_province_from_location", "get_language_from_name",
            "get_dominant_language_for_province", "reinvestigate_language_discrepancy"}

Returned(v, called, exc) == [ret |-> v, called |-> called, raised |-> exc, escaped |-> FALSE]
Uncaught == [ret |-> None, called |-> TRUE, raised |-> TRUE, escaped |-> TRUE]
NotCalled == Returned(None, FALSE, FALSE)

\* the helper without its except clause: the exception leaves it
GenerateUncaught(reply) ==
    IF reply.ok THEN Returned(strip(reply.text), TRUE, FALSE) ELSE Uncaught

\* try: return text_model.generate_content(prompt).text.strip()
\* except Exception: return "Error"
Generate(reply) ==
    IF reply.ok THEN Returned(strip(reply.text), TRUE, FALSE) ELSE Returned(Error, TRUE, TRUE)

ErrorObject(message) == Json("object", [k \in {"error"} |-> <<message>>])

extract_cv_info(reply) ==
    IF json_model = NoService
    THEN Returned(ErrorObject("JSON Model not configured."), FALSE, FALSE)
    ELSE IF reply.kind = "raises"
         THEN Returned(ErrorObject("Error calling Gemini for CV data"), TRUE, TRUE)
    ELSE Returned(reply, TRUE, FALSE)

get_language_from_name(name_and_surname, reply) ==
    IF text_model = NoService THEN Returned(Error, FALSE, FALSE)
    ELSE IF ~Truthy(name_and_surname) THEN Returned(None, FALSE, FALSE)
    ELSE Generate(reply)

get_province_from_location(location_name, reply) ==
    IF text_model = NoService THEN Returned(Error, FALSE, FALSE)
    ELSE IF ~Truthy(location_name) THEN Returned(None, FALSE, FALSE)
    ELSE Generate(reply)

get_dominant_language_for_province(province_name, reply) ==
    IF text_model = NoService THEN Returned(Error, FALSE, FALSE)
    ELSE IF ~Truthy(province_name) \/ province_name \in {Unknown, Error}
         THEN Returned(None, FALSE, FALSE)
    ELSE Generate(reply)

reinvestigate_language_discrepancy(n, name_lang, p, province_lang, reply) ==
    IF text_model = NoService THEN Returned(Error, FALSE, FALSE) ELSE Generate(reply)

-----------------------------------------------------------------------------
(* Responses *)

NoResponse == [status |-> 0, body |-> <<>>]

ErrorResponse(status, message) == [status |-> status, body |-> <<<<"error", <<message>>>>>>]

\* what Flask answers when the view raises
InternalServerError == ErrorResponse(500, "Internal Server Error")

final_order ==
    <<"Name and Surname", "Contact number", "Email address", "Town", "City", "Province",
      "Race", "Qualification", "University of Qualification", "Year of Qualification",
      "Current place of work", "First Language", "Second Language",
      "Dominant Province Language", "Final Predicted Native Language",
      "Language Assessment Note">>

\* the items of an extracted object, in the order the backend wrote them
BackendOrder == <<"Name and Surname", "Town", "City", "Province", "Hobbies", "error">>
Items(d) ==
    LET present == SelectSeq(BackendOrder, LAMBDA k : k \in DOMAIN d)
    IN [i \in 1..Len(present) |-> <<present[i], d[present[i]]>>]

\* the record dumped as extracted, without the pass over final_order
dumped_as_extracted(d) == Items(d)

\* OrderedDict((key, cv_data.get(key)) for key in final_order)
ordered_cv_data(d) ==
    [i \in 1..Len(final_order) |-> <<final_order[i], Get(d, final_order[i])>>]

-----------------------------------------------------------------------------
(* Module initialization, lines 19-46: all four handles, or none *)

Init ==
    /\ \E configured \in BOOLEAN :
          /\ text_model = IF configured THEN "text_model" ELSE NoService
          /\ json_model = IF configured THEN "json_model" ELSE NoService
          /\ sheets_service = IF configured THEN "sheets" ELSE NoService
          /\ drive_service = IF configured THEN "drive" ELSE NoService
    /\ pc = "idle"
    /\ cv_data = EmptyDict
    /\ name = None
    /\ province = None
    /\ name_based_language = None
    /\ province_based_language = None
    /\ response = NoResponse
    /\ inference_calls = <<>>
    /\ returns = [h \in Helpers |-> NotCalled]
    /\ export = <<>>
    /\ spreadsheets = <<>>

-----------------------------------------------------------------------------
(* POST /upload *)

Extensions == {".pdf", ".PDF", ".txt"}
lower(ext) == IF ext = ".PDF" THEN ".pdf" ELSE ext

\* request.files and what fitz makes of the stream
UploadRequests ==
    {[has_file |-> FALSE, stem |-> "", ext |-> "", parses |-> FALSE],
     [has_file |-> TRUE, stem |-> "", ext |-> "", parses |-> FALSE]}
        \cup {[has_file |-> TRUE, stem |-> "cv", ext |-> e, parses |-> p] :
                 e \in Extensions, p \in BOOLEAN}

Finish(resp) ==
    /\ response' = resp
    /\ pc' = "done"

\* the helper's result, and its call when it reached the backend
Called(helper, r) ==
    /\ returns' = [returns EXCEPT ![helper] = r]
    /\ inference_calls' = IF r.called THEN Append(inference_calls, helper)
                          ELSE inference_calls

\* lines 113-119: validation of the request and extract_text_from_pdf
ReceiveUpload ==
    /\ pc \in {"idle", "done"}
    /\ \E req \in UploadRequests :
          /\ cv_data' = EmptyDict
          /\ name' = None
          /\ province' = None
          /\ name_based_language' = None
          /\ province_based_language' = None
          /\ inference_calls' = <<>>
          /\ returns' = [h \in Helpers |-> NotCalled]
          /\ IF ~req.has_file THEN Finish(ErrorResponse(400, "No file part"))
             ELSE IF req.stem = "" /\ req.ext = ""
                  THEN Finish(ErrorResponse(400, "No file selected"))
             ELSE IF lower(req.ext) # ".pdf"
                  THEN Finish(ErrorResponse(400, "Please upload a PDF"))
             ELSE IF ~req.parses THEN Finish(ErrorResponse(500, "Failed to parse PDF"))
             ELSE /\ pc' = "extract_cv_info"
                  /\ response' = NoResponse
    /\ UNCHANGED <<config_vars, export_vars>>

\* lines 121-125: extract_cv_info, the error check and the two reads
ExtractCvInfo ==
    /\ pc = "extract_cv_info"
    /\ \E reply \in ExtractionReplies :
          LET r == extract_cv_info(reply)
              json == r.ret
          IN /\ Called("extract_cv_info", r)
             /\ IF r.escaped \/ json.kind # "object"
                \* 'in' and .get of a value that is no dict raise out of the view
                THEN /\ Finish(InternalServerError)
                     /\ UNCHANGED <<cv_data, name, province>>
                ELSE IF "error" \in DOMAIN json.object
                     THEN /\ Finish([status |-> 500, body |-> Items(json.object)])
                          /\ cv_data' = json.object
                          /\ UNCHANGED <<name, province>>
                ELSE /\ cv_data' = json.object
                     /\ name' = Get(json.object, "Name and Surname")
                     /\ province' = Get(json.object, "Province")
                     /\ pc' = "province"
                     /\ UNCHANGED response
    /\ UNCHANGED <<name_based_language, province_based_language, config_vars, export_vars>>

\* lines 126-129
ResolveProvince ==
    /\ pc = "province"
    /\ IF ~Truthy(province)
       THEN LET location == Or(Get(cv_data, "City"), Get(cv_data, "Town"))
            IN \E reply \in ProvinceReplies :
                  LET r == IF Truthy(location)
                           THEN get_province_from_location(location, reply)
                           ELSE NotCalled
                  IN /\ Called("get_province_from_location", r)
                     /\ IF r.escaped
                        THEN /\ Finish(InternalServerError)
                             /\ UNCHANGED <<province, cv_data>>
                        ELSE /\ province' = r.ret
                             /\ cv_data' = Put(cv_data, "Province", r.ret)
                             /\ pc' = "name_language"
                             /\ UNCHANGED response
       ELSE /\ pc' = "name_language"
            /\ UNCHANGED <<province, cv_data, inference_calls, returns, response>>
    /\ UNCHANGED <<name, name_based_language, province_based_language, config_vars,
                   export_vars>>

\* line 131
NameLanguage ==
    /\ pc = "name_language"
    /\ \E reply \in LanguageReplies :
          LET r == get_language_from_name(name, reply)
          IN /\ Called("get_language_from_name", r)
             /\ IF r.escaped
                THEN /\ Finish(InternalServerError)
                     /\ UNCHANGED name_based_language
                ELSE /\ name_based_language' = r.ret
                     /\ pc' = "province_language"
                     /\ UNCHANGED response
    /\ UNCHANGED <<cv_data, name, province, province_based_language, config_vars,
                   export_vars>>

\* line 132
ProvinceLanguage ==
    /\ pc = "province_language"
    /\ \E reply \in LanguageReplies :
          LET r == get_dominant_language_for_province(province, reply)
          IN /\ Called("get_dominant_language_for_province", r)
             /\ IF r.escaped
                THEN /\ Finish(InternalServerError)
                     /\ UNCHANGED province_based_language
                ELSE /\ province_based_language' = r.ret
                     /\ pc' = "reconcile"
                     /\ UNCHANGED response
    /\ UNCHANGED <<cv_data, name, province, name_based_language, config_vars, export_vars>>

\* the comparison of line 135 inverted
DiscrepancyInverted(n, p) == Truthy(n) /\ Truthy(p) /\ n = p

\* lines 135 and 138: the two conditions of the reconciliation
Discrepancy(n, p) == Truthy(n) /\ Truthy(p) /\ n # p
Aligned(n, p) == Truthy(n) /\ Truthy(p) /\ n = p

\* lines 134, 137 and 139: the three notes
NameNote == <<"Name-based prediction.">>
DiscrepancyNote(n, p) ==
    <<"Discrepancy (Name: ">> \o n \o <<", Province: ">> \o p \o <<"). Re-investigated.">>
AlignNote(n, p) == <<"Name (">> \o n \o <<") & Province (">> \o p \o <<") align.">>

\* lines 133-139: the final language as the helper's result, and the note
Reconciled(n, p, reply) ==
    IF Discrepancy(n, p)
    THEN [final |-> reinvestigate_language_discrepancy(name, n, province, p, reply),
          note |-> DiscrepancyNote(n, p)]
    ELSE [final |-> NotCalled, note |-> IF Aligned(n, p) THEN AlignNote(n, p) ELSE NameNote]

\* lines 133-147: reconciliation, the three derived fields and the response
Reconcile ==
    /\ pc = "reconcile"
    /\ \E reply \in LanguageReplies :
          LET n == name_based_language
              p == province_based_language
              rec == Reconciled(n, p, reply)
              final_language == IF Discrepancy(n, p) THEN rec.final.ret ELSE n
              d == Put(Put(Put(cv_data, "Dominant Province Language", p),
                           "Final Predicted Native Language", final_language),
                       "Language Assessment Note", rec.note)
          IN /\ Called("reinvestigate_language_discrepancy", rec.final)
             /\ IF rec.final.escaped
                THEN /\ Finish(InternalServerError)
                     /\ UNCHANGED cv_data
                ELSE /\ cv_data' = d
                     /\ Finish([status |-> 200, body |-> ordered_cv_data(d)])
    /\ UNCHANGED <<name, province, name_based_language, province_based_language,
                   config_vars, export_vars>>

NextUpload ==
    \/ ReceiveUpload
    \/ ExtractCvInfo
    \/ ResolveProvince
    \/ NameLanguage
    \/ ProvinceLanguage
    \/ Reconcile

Spec == Init /\ [][NextUpload]_vars

-----------------------------------------------------------------------------
(* POST /export *)

MaxRequests == 2

\* request.get_json(): null, or an object as its items in the order sent
Thabo == <<"Thabo", " ", "Nkosi">>
ExportPayloads ==
    {[is_null |-> TRUE, items |-> <<>>],
     [is_null |-> FALSE, items |-> <<>>],
     [is_null |-> FALSE, items |-> <<<<"Name and Surname", Thabo>>, <<"City", <<"Durban">>>>>>],
     [is_null |-> FALSE, items |-> <<<<"Name and Surname", None>>>>],
     [is_null |-> FALSE, items |-> <<<<"City", <<"Durban">>>>>>]}

\* cv_data.get(key, default) of an object given by its items
GetItem(items, key, default) ==
    LET at == {i \in DOMAIN items : items[i][1] = key}
    IN IF at = {} THEN default ELSE items[CHOOSE i \in at : TRUE][2]

NewCandidate == <<"New Candidate">>
Title(candidate_name) == <<"CV Analysis - ">> \o candidate_name
SheetUrl(id) == <<"https://docs.google.com/spreadsheets/d/", id>>

ExportFailed ==
    ErrorResponse(500,
        "Failed to create Google Sheet. Check the backend terminal for detailed errors.")

Requests == DOMAIN export

SetRequest(r, rec) == export' = [export EXCEPT ![r] = rec]

Respond(r, resp, call) ==
    SetRequest(r, [export[r] EXCEPT !.pc = "done", !.response = resp,
                                    !.calls = Append(@, call)])

\* lines 150-159: the service check, the payload check and the candidate's name
ReceiveExport ==
    /\ Len(export) < MaxRequests
    /\ \E payload \in ExportPayloads :
          LET fresh == [pc |-> "create", cv_data |-> payload.items,
                        candidate_name |-> GetItem(payload.items, "Name and Surname",
                                                   NewCandidate),
                        sheet_id |-> 0, sheet_url |-> None, calls |-> <<>>,
                        response |-> NoResponse]
              refuse(resp) == [fresh EXCEPT !.pc = "done", !.response = resp,
                                            !.candidate_name = None]
          IN export' = Append(export,
                 IF sheets_service = NoService \/ drive_service = NoService
                 THEN refuse(ErrorResponse(500,
                          "Google API service not available. Check backend logs."))
                 ELSE IF payload.is_null \/ payload.items = <<>>
                      THEN refuse(ErrorResponse(400, "No data received for export."))
                 ELSE fresh)
    /\ UNCHANGED <<spreadsheets, config_vars, upload_vars>>

\* lines 162-165: spreadsheets().create(...).execute()
CreateSpreadsheet(r) ==
    /\ export[r].pc = "create"
    /\ \E ok \in BOOLEAN :
          IF ok
          THEN LET id == Len(spreadsheets) + 1
               IN /\ spreadsheets' =
                         Append(spreadsheets, [title |-> Title(export[r].candidate_name),
                                               values |-> <<>>, shared |-> FALSE])
                  /\ SetRequest(r, [export[r] EXCEPT !.pc = "update", !.sheet_id = id,
                                        !.sheet_url = SheetUrl(id),
                                        !.calls = Append(@, "spreadsheets.create")])
          ELSE /\ Respond(r, ExportFailed, "spreadsheets.create")
               /\ UNCHANGED spreadsheets
    /\ UNCHANGED <<config_vars, upload_vars>>

\* lines 167-174: spreadsheets().values().update(...).execute()
UpdateValues(r) ==
    /\ export[r].pc = "update"
    /\ \E ok \in BOOLEAN :
          IF ok
          THEN /\ spreadsheets' = [spreadsheets EXCEPT ![export[r].sheet_id].values =
                                                           export[r].cv_data]
               /\ SetRequest(r, [export[r] EXCEPT !.pc = "permission",
                                     !.calls = Append(@, "values.update")])
          ELSE /\ Respond(r, ExportFailed, "values.update")
               /\ UNCHANGED spreadsheets
    /\ UNCHANGED <<config_vars, upload_vars>>

\* the handler answering with the URL whether or not the permission call raised
CreatePermissionUnchecked(r) ==
    /\ export[r].pc = "permission"
    /\ \E ok \in BOOLEAN :
          /\ spreadsheets' = IF ok THEN [spreadsheets EXCEPT ![export[r].sheet_id].shared = TRUE]
                             ELSE spreadsheets
          /\ Respond(r, [status |-> 200, body |-> <<<<"sheetUrl", export[r].sheet_url>>>>],
                     "permissions.create")
    /\ UNCHANGED <<config_vars, upload_vars>>

\* lines 176-185: permissions().create(...).execute() and the response
CreatePermission(r) ==
    /\ export[r].pc = "permission"
    /\ \E ok \in BOOLEAN :
          IF ok
          THEN /\ spreadsheets' = [spreadsheets EXCEPT ![export[r].sheet_id].shared = TRUE]
               /\ Respond(r, [status |-> 200,
                              body |-> <<<<"sheetUrl", export[r].sheet_url>>>>],
                          "permissions.create")
          ELSE /\ Respond(r, ExportFailed, "permissions.create")
               /\ UNCHANGED spreadsheets
    /\ UNCHANGED <<config_vars, upload_vars>>

NextExport ==
    \/ ReceiveExport
    \/ \E r \in Requests : CreateSpreadsheet(r)
    \/ \E r \in Requests : UpdateValues(r)
    \/ \E r \in Requests : CreatePermission(r)

SpecExport == Init /\ [][NextExport]_vars

-----------------------------------------------------------------------------
(* Properties of /upload *)

Uploaded == pc = "done" /\ response.status = 200
Field(key) == GetItem(response.body, key, None)
FinalLanguage == Field("Final Predicted Native Language")
Note == Field("Language Assessment Note")

\* an estimate that is neither null nor the error sentinel
Present(v) == v # None /\ v # Error

Arbitration == returns["reinvestigate_language_discrepancy"]
Arbitrations ==
    Cardinality({i \in DOMAIN inference_calls :
                    inference_calls[i] = "reinvestigate_language_discrepancy"})

Extracted == returns["extract_cv_info"].ret
ExtractionSucceeded ==
    /\ returns["extract_cv_info"].called
    /\ Extracted.kind = "object"
    /\ "error" \notin DOMAIN Extracted.object

\* C2: arbitration is invoked only when both estimates are present (non-null, not
\* "Error") and differ; an estimate that is absent or "Error" never triggers it
\* and is never reported as a discrepancy or as an agreement.
C2_ArbitrationOnlyBetweenPresent ==
    Uploaded =>
        LET n == name_based_language
            p == province_based_language
        IN /\ Arbitrations > 0 => Present(n) /\ Present(p) /\ n # p
           /\ ~Present(n) \/ ~Present(p) => Note \notin {DiscrepancyNote(n, p), AlignNote(n, p)}

\* C3: when exactly one of the two estimates is present, the final language is
\* that estimate and the note names the signal used; with a null name-based
\* estimate and a province-based estimate L the final language is L.
C3_SingleEstimateIsFinal ==
    Uploaded =>
        LET n == name_based_language
            p == province_based_language
        IN /\ Present(n) /\ ~Present(p) => FinalLanguage = n /\ Note = NameNote
           /\ ~Present(n) /\ Present(p) => FinalLanguage = p /\ Note # NameNote

\* C4: when neither estimate is present, the final language is null and the
\* note does not say that the name-based signal produced it.
C4_NeitherEstimatePresent ==
    Uploaded /\ ~Present(name_based_language) /\ ~Present(province_based_language)
        => FinalLanguage = None /\ Note # NameNote

ArbitratedOnce(n, p) ==
    /\ Arbitrations = 1
    /\ Arbitration.called
    /\ FinalLanguage = Arbitration.ret
    /\ Note = DiscrepancyNote(n, p)

C6_FinalLanguageInEnumeration == Uploaded => FinalLanguage \in Languages \cup {None, Error}

Derived == {"Province", "Dominant Province Language", "Final Predicted Native Language",
            "Language Assessment Note"}

\* C7: a returned record has exactly the names of final_order, in that order,
\* whatever keys the extraction returned: a name the backend did not return
\* carries null, a returned one its value, and no other key appears.
C7_FixedSchema ==
    Uploaded =>
        /\ Len(response.body) = Len(final_order)
        /\ \A i \in DOMAIN response.body :
              LET k == final_order[i]
              IN /\ Len(response.body[i]) = 2
                 /\ response.body[i][1] = k
                 /\ k \notin Derived => response.body[i][2] = Get(Extracted.object, k)

C7_Witness ==
    /\ Uploaded
    /\ "Hobbies" \in DOMAIN Extracted.object
    /\ "City" \notin DOMAIN Extracted.object
    /\ "Town" \in DOMAIN Extracted.object
    /\ Field("City") = None
    /\ Field("Town") # None

Misconfigured ==
    /\ text_model = NoService
    /\ json_model = NoService
    /\ sheets_service = NoService
    /\ drive_service = NoService

\* C8: when the configuration failed, every /upload and every /export is answered
\* with a 5xx response and no call reaches the inference or the sheet backend.
C8_MisconfiguredAnswers5xx ==
    Misconfigured =>
        /\ pc = "done" => response.status >= 500
        /\ inference_calls = <<>>
        /\ spreadsheets = <<>>
        /\ \A r \in Requests :
              export[r].pc = "done" /\ export[r].response.status >= 500
                  /\ export[r].calls = <<>>

\* C9: once the extraction has given a record, no failing sub-call aborts the
\* request: the request ends with status 200 and the complete record, and a
\* sub-call that raised leaves the error sentinel in the value it computes.
C9_SubCallFailuresDegrade ==
    /\ pc \in {"province", "name_language", "province_language", "reconcile"}
           => ExtractionSucceeded /\ response = NoResponse
    /\ pc = "done" /\ ExtractionSucceeded =>
           /\ response.status = 200
           /\ [i \in DOMAIN response.body |-> response.body[i][1]] = final_order
           /\ returns["get_province_from_location"].raised => Field("Province") = Error
           /\ returns["get_language_from_name"].raised => name_based_language = Error
           /\ returns["get_dominant_language_for_province"].raised
                  => Field("Dominant Province Language") = Error
           /\ Arbitration.raised => FinalLanguage = Error
           /\ returns["get_language_from_name"].raised /\ ~Arbitration.called
                  => FinalLanguage = Error

C9_Witness ==
    /\ pc = "done"
    /\ ExtractionSucceeded
    /\ returns["get_language_from_name"].raised
    /\ Arbitration.raised
    /\ response.status = 200
    /\ FinalLanguage = Error

-----------------------------------------------------------------------------
(* Properties of /export *)

ExportSteps == <<"spreadsheets.create", "values.update", "permissions.create">>
IsPrefix(s, t) == Len(s) <= Len(t) /\ s = SubSeq(t, 1, Len(s))

\* C1: the sheet of a label is created at most once, and a later export of the
\* same label answers with the sheet the first one made.
C1_ExportIdempotence ==
    /\ \A i, j \in DOMAIN spreadsheets :
          spreadsheets[i].title = spreadsheets[j].title => i = j
    /\ \A r, q \in Requests :
          /\ export[r].response.status = 200
          /\ export[q].response.status = 200
          /\ export[r].candidate_name = export[q].candidate_name
          => export[r].sheet_id = export[q].sheet_id

Written(r) ==
    /\ export[r].sheet_id \in DOMAIN spreadsheets
    /\ spreadsheets[export[r].sheet_id].values = export[r].cv_data

Shared(r) ==
    /\ export[r].sheet_id \in DOMAIN spreadsheets
    /\ spreadsheets[export[r].sheet_id].shared

\* C10: a request makes its external calls at most once each, in the order
\* create, write, permission; its response carries the sheet URL only when all
\* three succeeded; when the write or the permission call failed the response is
\* a 500 without the URL and the sheet the request created is still in the store.
C10_ExportSteps ==
    \A r \in Requests :
        /\ IsPrefix(export[r].calls, ExportSteps)
        /\ export[r].sheet_id # 0 =>
              /\ export[r].sheet_id \in DOMAIN spreadsheets
              /\ spreadsheets[export[r].sheet_id].title = Title(export[r].candidate_name)
              /\ export[r].sheet_url = SheetUrl(export[r].sheet_id)
        /\ export[r].pc = "done" =>
              IF export[r].calls = ExportSteps /\ Written(r) /\ Shared(r)
              THEN export[r].response =
                       [status |-> 200, body |-> <<<<"sheetUrl", export[r].sheet_url>>>>]
              ELSE /\ export[r].response.status \in {400, 500}
                   /\ \A i \in DOMAIN export[r].response.body :
                         export[r].response.body[i][1] = "error"
                   /\ export[r].sheet_id # 0 => export[r].response = ExportFailed

C10_Witness ==
    \E r \in Requests :
        /\ export[r].pc = "done"
        /\ export[r].calls = ExportSteps
        /\ Written(r)
        /\ ~Shared(r)
        /\ export[r].response = ExportFailed

====
